---------------------------- MODULE Spec2Model ----------------------------
(***************************************************************************)
(* Brand-to-theme MCP server: the attribute extractor (PDFExtractor), the   *)
(* token synthesizer and format renderer (DesignTokenExtractor) and the     *)
(* tool registration of the server (index).                                 *)
(*                                                                          *)
(* Texts and every value the code keeps as a JavaScript string are TLA+     *)
(* strings; a character is a string of length 1, Ch(s, i) is s[i-1] of the  *)
(* code (TLA+ indexes from 1).                                              *)
(***************************************************************************)
EXTENDS Integers, Sequences, FiniteSets, TLC

VARIABLES
    text,           \* extractor run: the raw document text handed to the extractor
    colorsOut,      \* extractor run: <<what extractColors(text) returned>>, <<>> before
    typographyOut,  \* extractor run: <<what extractTypography(text) returned>>, <<>> before
    brandNameOut,   \* extractor run: <<what extractBrandName(text) returned>>, <<>> before;
                    \* what it returns is <<name>>, or <<>> for undefined
    profile,        \* synthesizer run: the BrandingData handed to generateDesignTokens
    synthOut,       \* synthesizer run: <<the outcome of generateDesignTokens>>, <<>> before
    rendered,       \* synthesizer run: <<[format, text]>> once the tokens were rendered
    heap,           \* the objects allocated so far (token groups), by address
    clock,          \* the instant new Date() reads
    runs,           \* successive synthesis calls: <<[profile, result]>>
    inflight,       \* handler invocations by id (order of start): the request, whether
                    \* it is suspended at "await pdfParse", its frame while it is, and
                    \* the collaborators it has called
    responses,      \* what the invocations returned, in order of return: <<[id, resp]>>
    log,            \* the lines handed to the process-wide logger: <<[id, level, message]>>
    requestHandlers,\* the server's handler table: request method -> handler
    served          \* tool calls the server answered: <<[req, reached, resp]>>

vars == <<text, colorsOut, typographyOut, brandNameOut, profile, synthOut, rendered, heap, clock, runs,
          inflight, responses, log, requestHandlers, served>>

-----------------------------------------------------------------------------
(* Characters and the character classes of the regular expressions.         *)

Ch(s, i) == SubSeq(s, i, i)

UpperLetters == "ABCDEFGHIJKLMNOPQRSTUVWXYZ"
LowerLetters == "abcdefghijklmnopqrstuvwxyz"
DecDigits == "0123456789"
HexDigitsLower == "0123456789abcdef"

\* The 1-based position of character c in s, 0 when absent.
IndexOf(s, c) ==
    IF \E i \in 1..Len(s) : Ch(s, i) = c
    THEN CHOOSE i \in 1..Len(s) : Ch(s, i) = c
    ELSE 0

CharsOf(s) == {Ch(s, i) : i \in 1..Len(s)}
UpperSet == CharsOf(UpperLetters)
LowerSet == CharsOf(LowerLetters)
DigitSet == CharsOf(DecDigits)
HexDigitSet == CharsOf(HexDigitsLower)
LowerMap == [c \in UpperSet |-> Ch(LowerLetters, IndexOf(UpperLetters, c))]
DigitValue == [c \in DigitSet |-> IndexOf(DecDigits, c) - 1]

\* String.prototype.toLowerCase, one character.
LowerCh(c) == IF c \in UpperSet THEN LowerMap[c] ELSE c

RECURSIVE toLowerCase(_)
toLowerCase(s) ==
    IF s = "" THEN "" ELSE LowerCh(Head(s)) \o toLowerCase(Tail(s))

IsDigit(c) == c \in DigitSet                                  \* \d
IsHexDigit(c) == LowerCh(c) \in HexDigitSet                    \* [A-Fa-f0-9]
IsSpace(c) == c \in {" ", "\t", "\n"}                          \* \s
IsWordCh(c) == c \in UpperSet \cup LowerSet \cup DigitSet \cup {"_"}  \* \w

\* Whether the n characters of s from position i on all satisfy the class.
AllHex(s, i, n) ==
    /\ i + n - 1 <= Len(s)
    /\ \A k \in i..(i + n - 1) : IsHexDigit(Ch(s, k))

\* Number to string in base 10 (template literals) and base 16 (toString(16)).
RECURSIVE ToDecimal(_)
ToDecimal(n) ==
    IF n < 10 THEN Ch(DecDigits, n + 1)
    ELSE ToDecimal(n \div 10) \o Ch(DecDigits, (n % 10) + 1)

RECURSIVE toString16(_)
toString16(n) ==
    IF n < 16 THEN Ch(HexDigitsLower, n + 1)
    ELSE toString16(n \div 16) \o Ch(HexDigitsLower, (n % 16) + 1)

\* parseInt of a string of decimal digits.
RECURSIVE parseInt(_)
parseInt(d) ==
    IF d = "" THEN 0
    ELSE 10 * parseInt(SubSeq(d, 1, Len(d) - 1)) + DigitValue[Ch(d, Len(d))]

-----------------------------------------------------------------------------
(* extractColors, hex pass: text.match(/#([A-Fa-f0-9]{6}|[A-Fa-f0-9]{3})/g) *)

\* The length of the match of hexPattern starting at position i, 0 if none:
\* the alternation tries six digits before three.
HexMatchLen(s, i) ==
    IF i > Len(s) \/ Ch(s, i) # "#" THEN 0
    ELSE IF AllHex(s, i + 1, 6) THEN 7
    ELSE IF AllHex(s, i + 1, 3) THEN 4
    ELSE 0

\* All matches from position i on, left to right, without overlap (the g flag).
RECURSIVE HexMatchesFrom(_, _)
HexMatchesFrom(s, i) ==
    IF i > Len(s) THEN <<>>
    ELSE LET n == HexMatchLen(s, i) IN
         IF n = 0 THEN HexMatchesFrom(s, i + 1)
         ELSE <<SubSeq(s, i, i + n - 1)>> \o HexMatchesFrom(s, i + n)

hexMatches(s) == HexMatchesFrom(s, 1)

\* category: index === 0 ? 'primary' : (index === 1 ? 'secondary' : 'accent')
\* (index is 0-based, as in the code)
HexCategoryNoSecondary(index) == IF index = 0 THEN "primary" ELSE "accent"
HexCategory(index) ==
    IF index = 0 THEN "primary" ELSE IF index = 1 THEN "secondary" ELSE "accent"

\* The ColorInfo pushed for the hex match at 0-based index.
HexColorInfo(hex, index) ==
    [name |-> "Color " \o ToDecimal(index + 1), hex |-> hex,
     category |-> HexCategory(index)]

HexPass(s) ==
    LET m == hexMatches(s) IN [k \in 1..Len(m) |-> HexColorInfo(m[k], k - 1)]

-----------------------------------------------------------------------------
(* extractColors, RGB pass:                                                 *)
(* /RGB\s*\(\s*(\d{1,3})\s*,\s*(\d{1,3})\s*,\s*(\d{1,3})\s*\)/gi            *)

\* The first position >= i that holds no whitespace (\s* is greedy and what
\* follows it in the pattern is never whitespace, so no backtracking applies).
RECURSIVE SkipSpaces(_, _)
SkipSpaces(s, i) ==
    IF i <= Len(s) /\ IsSpace(Ch(s, i)) THEN SkipSpaces(s, i + 1) ELSE i

\* The length of the run of digits starting at position i.
RECURSIVE DigitRunLen(_, _)
DigitRunLen(s, i) ==
    IF i <= Len(s) /\ IsDigit(Ch(s, i)) THEN 1 + DigitRunLen(s, i + 1) ELSE 0

Lit(s, i, c) == i <= Len(s) /\ Ch(s, i) = c

NoMatch == [ok |-> FALSE]

\* The match of rgbPattern starting at position i: its three groups and the
\* position after it (the regex's lastIndex). A digit run longer than three
\* fails: \d{1,3} must be followed by \s* and the separator.
RgbMatchAt(s, i) ==
    IF ~(i + 2 <= Len(s) /\ toLowerCase(SubSeq(s, i, i + 2)) = "rgb") THEN NoMatch
    ELSE
    LET p1 == SkipSpaces(s, i + 3)
        p2 == SkipSpaces(s, p1 + 1)
        n1 == DigitRunLen(s, p2)
        p3 == SkipSpaces(s, p2 + n1)
        p4 == SkipSpaces(s, p3 + 1)
        n2 == DigitRunLen(s, p4)
        p5 == SkipSpaces(s, p4 + n2)
        p6 == SkipSpaces(s, p5 + 1)
        n3 == DigitRunLen(s, p6)
        p7 == SkipSpaces(s, p6 + n3)
    IN  IF /\ Lit(s, p1, "(")
           /\ n1 \in 1..3
           /\ Lit(s, p3, ",")
           /\ n2 \in 1..3
           /\ Lit(s, p5, ",")
           /\ n3 \in 1..3
           /\ Lit(s, p7, ")")
        THEN [ok |-> TRUE,
              g1 |-> SubSeq(s, p2, p2 + n1 - 1),
              g2 |-> SubSeq(s, p4, p4 + n2 - 1),
              g3 |-> SubSeq(s, p6, p6 + n3 - 1),
              end |-> p7 + 1]
        ELSE NoMatch

\* All matches of rgbPattern, as the exec loop finds them: leftmost from
\* lastIndex, then on from the end of the match.
RECURSIVE RgbMatchesFrom(_, _)
RgbMatchesFrom(s, i) ==
    IF i > Len(s) THEN <<>>
    ELSE LET m == RgbMatchAt(s, i) IN
         IF m.ok THEN <<m>> \o RgbMatchesFrom(s, m.end)
         ELSE RgbMatchesFrom(s, i + 1)

rgbMatches(s) == RgbMatchesFrom(s, 1)

\* x << n on values that stay far below 2^31 (a component is at most 999).
Shl(x, n) == x * (2 ^ n)

\* '#' + ((1 << 24) + (r << 16) + (g << 8) + b).toString(16).slice(1)
rgbToHexUnpadded(r, g, b) ==
    "#" \o toString16(Shl(r, 16) + Shl(g, 8) + b)
rgbToHex(r, g, b) ==
    LET digits == toString16(Shl(1, 24) + Shl(r, 16) + Shl(g, 8) + b)
    IN  "#" \o SubSeq(digits, 2, Len(digits))

\* c.hex.toLowerCase() === hex.toLowerCase()
SameHexCaseSensitive(a, b) == a = b
SameHex(a, b) == toLowerCase(a) = toLowerCase(b)

\* An RGB match pushed with a category, as the hex matches are.
RgbColorInfoCategorized(m, colors) ==
    [name |-> "Color RGB " \o ToDecimal(Len(colors) + 1),
     hex |-> rgbToHex(parseInt(m.g1), parseInt(m.g2), parseInt(m.g3)),
     rgb |-> "rgb(" \o m.g1 \o ", " \o m.g2 \o ", " \o m.g3 \o ")",
     category |-> HexCategory(Len(colors))]

\* The ColorInfo pushed for an RGB match when `colors` holds the signals so far.
RgbColorInfo(m, colors) ==
    [name |-> "Color RGB " \o ToDecimal(Len(colors) + 1),
     hex |-> rgbToHex(parseInt(m.g1), parseInt(m.g2), parseInt(m.g3)),
     rgb |-> "rgb(" \o m.g1 \o ", " \o m.g2 \o ", " \o m.g3 \o ")"]

\* The while loop over the matches ms[k..], colors being the list so far.
RECURSIVE RgbPass(_, _, _)
RgbPass(ms, k, colors) ==
    IF k > Len(ms) THEN colors
    ELSE LET c == RgbColorInfo(ms[k], colors) IN
         IF \E j \in 1..Len(colors) : SameHex(colors[j].hex, c.hex)
         THEN RgbPass(ms, k + 1, colors)
         ELSE RgbPass(ms, k + 1, Append(colors, c))

extractColors(s) == RgbPass(rgbMatches(s), 1, HexPass(s))

-----------------------------------------------------------------------------
(* extractTypography                                                        *)

commonFonts == <<
    "Arial", "Helvetica", "Times", "Times New Roman", "Courier", "Verdana",
    "Georgia", "Palatino", "Garamond", "Bookman", "Tahoma", "Trebuchet MS",
    "Impact", "Comic Sans MS", "Webdings", "Symbol", "Montserrat", "Roboto",
    "Open Sans", "Lato", "Oswald", "Raleway", "PT Sans", "Merriweather",
    "Ubuntu", "Noto", "Playfair Display", "Poppins", "Nunito", "Work Sans" >>

\* \b before position i: exactly one of s[i-1], s[i] is a word character (the
\* ends of the text count as non-word).
WordBoundary(s, i) ==
    (i > 1 /\ IsWordCh(Ch(s, i - 1))) # (i <= Len(s) /\ IsWordCh(Ch(s, i)))

\* new RegExp(`\\b${font}\\b`, 'gi').test(text): the regex is built afresh for
\* each font, so its lastIndex starts at 0 and the whole text is searched.
\* (The i flag compares both sides case-folded: ls is the folded text.)
fontRegexTest(font, s, ls) ==
    LET n == Len(font)
        lf == toLowerCase(font)
    IN  \E i \in 1..(Len(s) - n + 1) :
            /\ SubSeq(ls, i, i + n - 1) = lf
            /\ WordBoundary(s, i)
            /\ WordBoundary(s, i + n)

\* category: typography.length === 0 ? 'heading' : 'body'
TypographyCategoryByFontIndex(typography, k) == IF k = 1 THEN "heading" ELSE "body"
TypographyCategory(typography, k) == IF Len(typography) = 0 THEN "heading" ELSE "body"

\* commonFonts.forEach from the k-th font on, typography being the list so far.
RECURSIVE FontsFrom(_, _, _)
FontsFrom(s, k, typography) ==
    IF k > Len(commonFonts) THEN typography
    ELSE IF fontRegexTest(commonFonts[k], s, toLowerCase(s))
         THEN FontsFrom(s, k + 1,
                  Append(typography, [family |-> commonFonts[k],
                                      category |-> TypographyCategory(typography, k)]))
         ELSE FontsFrom(s, k + 1, typography)

DefaultTypography ==
    << [family |-> "Arial", category |-> "heading"],
       [family |-> "Helvetica", category |-> "body"] >>

extractTypography(s) ==
    LET typography == FontsFrom(s, 1, <<>>)
    IN  IF Len(typography) = 0 THEN DefaultTypography ELSE typography

-----------------------------------------------------------------------------
(* extractLogos and extractBrandName                                        *)

\* /\bword\b/i.test(text). (Case folding covers the ASCII letters; the texts
\* of the model hold no uppercase accented letter.)
MatchesWord(s, word) == fontRegexTest(word, s, toLowerCase(s))

MatchesAnyWord(s, words) == \E w \in words : MatchesWord(s, w)

extractLogos(s) ==
    (IF MatchesWord(s, "logo")
     THEN << [name |-> "Logo Principal", type |-> "primary",
              description |-> "Logotipo principal extraído del PDF"] >>
     ELSE <<>>)
    \o (IF MatchesAnyWord(s, {"icon", "isotipo", "símbolo"})
        THEN << [name |-> "Isotipo", type |-> "icon",
                 description |-> "Versión de icono del logotipo"] >>
        ELSE <<>>)
    \o (IF MatchesAnyWord(s, {"alternativo", "secundario", "monocromático"})
        THEN << [name |-> "Logo Alternativo", type |-> "alternative",
                 description |-> "Versión alternativa del logotipo"] >>
        ELSE <<>>)

IsUpperLetter(c) == c \in UpperSet
IsLetter(c) == c \in UpperSet \cup LowerSet
IsQuote(c) == c \in {":", "\"", "'"}                           \* [:\"']
IsNameCh(c) == IsLetter(c) \/ IsDigit(c) \/ IsSpace(c)         \* [A-Za-z0-9\s]

\* [A-Z] at position q: with the i flag every ASCII letter matches.
NameStartAt(s, q, ignoreCase) ==
    /\ q <= Len(s)
    /\ IF ignoreCase THEN IsLetter(Ch(s, q)) ELSE IsUpperLetter(Ch(s, q))

\* \s*[:\"']?\s*([A-Z]...) from position p, which holds no whitespace: the
\* position where the captured group starts, 0 when this part cannot match.
\* (Taking less whitespace or leaving the quote out never helps: the next
\* character is then whitespace or the quote, not a letter.)
GroupStartAfter(s, p, ignoreCase) ==
    IF p <= Len(s) /\ IsQuote(Ch(s, p))
    THEN LET d == SkipSpaces(s, p + 1)
         IN  IF NameStartAt(s, d, ignoreCase) THEN d ELSE 0
    ELSE IF NameStartAt(s, p, ignoreCase) THEN p ELSE 0

LiteralAt(s, i, lit, ignoreCase) ==
    /\ i + Len(lit) - 1 <= Len(s)
    /\ IF ignoreCase
       THEN toLowerCase(SubSeq(s, i, i + Len(lit) - 1)) = toLowerCase(lit)
       ELSE SubSeq(s, i, i + Len(lit) - 1) = lit

\* /lead\s+(?:opt)?\s*[:\"']?\s*([A-Z][A-Za-z0-9\s]{0,20})/i at position i:
\* where the group starts, 0 when there is no match at i. The optional word is
\* tried first; when the rest fails with it, the regex backtracks and tries
\* the rest without it.
LeadOptGroupStart(s, i, lead, opt) ==
    IF ~LiteralAt(s, i, lead, TRUE) THEN 0
    ELSE
    LET a == i + Len(lead)
        b == SkipSpaces(s, a)
        withOpt == IF LiteralAt(s, b, opt, TRUE)
                   THEN GroupStartAfter(s, SkipSpaces(s, b + Len(opt)), TRUE)
                   ELSE 0
    IN  IF b = a THEN 0
        ELSE IF withOpt # 0 THEN withOpt
        ELSE GroupStartAfter(s, b, TRUE)

\* /[Bb]rand\s+[Nn]ame\s*[:\"']?\s*([A-Z][A-Za-z0-9\s]{0,20})/ at position i.
BrandNameGroupStart(s, i) ==
    IF ~(LiteralAt(s, i, "Brand", FALSE) \/ LiteralAt(s, i, "brand", FALSE)) THEN 0
    ELSE
    LET a == i + 5
        b == SkipSpaces(s, a)
    IN  IF b = a THEN 0
        ELSE IF ~(LiteralAt(s, b, "Name", FALSE) \/ LiteralAt(s, b, "name", FALSE)) THEN 0
        ELSE GroupStartAfter(s, SkipSpaces(s, b + 4), FALSE)

\* The number of characters of [A-Za-z0-9\s] from position q on, at most n.
RECURSIVE NameRunLen(_, _, _)
NameRunLen(s, q, n) ==
    IF n > 0 /\ q <= Len(s) /\ IsNameCh(Ch(s, q)) THEN 1 + NameRunLen(s, q + 1, n - 1) ELSE 0

\* match[1]: the first letter and up to 20 more characters (greedy).
GroupAt(s, q) == SubSeq(s, q, q + NameRunLen(s, q + 1, 20))

\* String.prototype.trim
RECURSIVE trim(_)
trim(s) ==
    IF s = "" THEN ""
    ELSE IF IsSpace(Ch(s, 1)) THEN trim(SubSeq(s, 2, Len(s)))
    ELSE IF IsSpace(Ch(s, Len(s))) THEN trim(SubSeq(s, 1, Len(s) - 1))
    ELSE s

\* text.match(pattern) for the k-th of brandPatterns: <<match[1]>> of the
\* leftmost match, <<>> when there is none.
BrandPatternMatch(s, k) ==
    LET Start(i) == CASE k = 1 -> LeadOptGroupStart(s, i, "marca", "registrada")
                      [] k = 2 -> BrandNameGroupStart(s, i)
                      [] k = 3 -> LeadOptGroupStart(s, i, "logotipo", "de")
        hits == {i \in 1..Len(s) : Start(i) # 0}
    IN  IF hits = {} THEN <<>>
        ELSE <<GroupAt(s, Start(CHOOSE i \in hits : \A j \in hits : i <= j))>>

\* extractBrandName: <<the name>>, or <<>> for undefined.
RECURSIVE BrandNameFrom(_, _)
BrandNameFrom(s, k) ==
    IF k > 3 THEN <<>>
    ELSE LET m == BrandPatternMatch(s, k) IN
         IF m # <<>> THEN <<trim(m[1])>> ELSE BrandNameFrom(s, k + 1)

extractBrandName(s) == BrandNameFrom(s, 1)

-----------------------------------------------------------------------------
(* The token synthesizer (DesignTokenExtractor).                            *)
(*                                                                          *)
(* A JavaScript object is a TLA+ function from its keys; an absent field is *)
(* a key outside its DOMAIN. The token groups the code builds and then      *)
(* writes to live in `heap`, a sequence of objects whose indices are the    *)
(* references the code passes around.                                       *)

Has(obj, key) == key \in DOMAIN obj

NoFields == [k \in {} |-> ""]

\* The object literal of generateDefaultColorTokens.
DefaultColorTokens ==
    [primary |->
        ("50" :> "#e6f0f9" @@ "100" :> "#cce0f3" @@ "200" :> "#99c2e8" @@
         "300" :> "#66a3dc" @@ "400" :> "#3385d1" @@ "500" :> "#0066c5" @@
         "600" :> "#00529e" @@ "700" :> "#003d76" @@ "800" :> "#00294f" @@
         "900" :> "#001427"),
     secondary |->
        ("50" :> "#e6f5e6" @@ "100" :> "#ccebcc" @@ "200" :> "#99d699" @@
         "300" :> "#66c266" @@ "400" :> "#33ad33" @@ "500" :> "#009900" @@
         "600" :> "#007a00" @@ "700" :> "#005c00" @@ "800" :> "#003d00" @@
         "900" :> "#001f00"),
     accent |->
        ("50" :> "#fef2e6" @@ "100" :> "#fde6cc" @@ "200" :> "#fbcc99" @@
         "300" :> "#f9b366" @@ "400" :> "#f69933" @@ "500" :> "#f48000" @@
         "600" :> "#c36600" @@ "700" :> "#924d00" @@ "800" :> "#613300" @@
         "900" :> "#311a00"),
     neutral |->
        ("50" :> "#f7f7f7" @@ "100" :> "#e3e3e3" @@ "200" :> "#c8c8c8" @@
         "300" :> "#a4a4a4" @@ "400" :> "#818181" @@ "500" :> "#666666" @@
         "600" :> "#515151" @@ "700" :> "#434343" @@ "800" :> "#383838" @@
         "900" :> "#121212" @@ "white" :> "#ffffff" @@ "black" :> "#000000"),
     feedback |->
        [success |-> "#00C851", warning |-> "#FFBB33",
         error |-> "#FF4444", info |-> "#33B5E5"]]

\* The object literal of generateDefaultTypographyTokens. Weights are numbers;
\* the line heights 1.2, 1.5 and 2 are kept as the text `${value}` gives them.
DefaultTypographyTokens ==
    [families |-> [heading |-> "Arial, sans-serif",
                   body |-> "Helvetica, Arial, sans-serif"],
     weights |-> [light |-> 300, regular |-> 400, medium |-> 500,
                  semibold |-> 600, bold |-> 700, extraBold |-> 800],
     sizes |-> [base |-> "16px", xs |-> "0.75rem", sm |-> "0.875rem", md |-> "1rem",
                lg |-> "1.25rem", xl |-> "1.5rem", xxl |-> "2rem", xxxl |-> "3rem"],
     lineHeights |-> [tight |-> "1.2", normal |-> "1.5", loose |-> "2"]]

\* The object literal of generateDefaultSpacingTokens.
DefaultSpacingTokens ==
    [base |-> "8px", xs |-> "0.25rem", sm |-> "0.5rem", md |-> "1rem",
     lg |-> "1.5rem", xl |-> "2rem", xxl |-> "3rem"]

\* Evaluating an object literal: a new object, at a new reference.
Alloc(h, obj) == [heap |-> Append(h, obj), ref |-> Len(h) + 1]

\* A module-level object handed out again on every call instead of a literal
\* evaluated per call.
AllocShared(h, obj) ==
    IF \E a \in 1..Len(h) : DOMAIN h[a] = DOMAIN obj
    THEN [heap |-> h, ref |-> CHOOSE a \in 1..Len(h) :
                                  /\ DOMAIN h[a] = DOMAIN obj
                                  /\ \A b \in 1..(a - 1) : DOMAIN h[b] # DOMAIN obj]
    ELSE Alloc(h, obj)

generateDefaultColorTokensShared(h) == AllocShared(h, DefaultColorTokens)
generateDefaultColorTokens(h) == Alloc(h, DefaultColorTokens)
generateDefaultTypographyTokens(h) == Alloc(h, DefaultTypographyTokens)
generateDefaultSpacingTokens(h) == Alloc(h, DefaultSpacingTokens)

\* c.category of a ColorInfo or TypographyInfo: undefined when never set.
CategoryIs(c, cat) == Has(c, "category") /\ c.category = cat

\* colors.filter(c => c.category === cat)
FilterCategory(list, cat) == SelectSeq(list, LAMBDA c : CategoryIs(c, cat))

\* typography.find(t => t.category === cat): <<the first one>>, or <<>> (undefined)
FindCategory(list, cat) ==
    LET hits == FilterCategory(list, cat)
    IN  IF Len(hits) = 0 THEN <<>> ELSE <<hits[1]>>

Throw(h, error) == [threw |-> TRUE, error |-> error, heap |-> h]
Return(h, value) == [threw |-> FALSE, value |-> value, heap |-> h]

TypeErrorFilter == "Cannot read properties of undefined (reading 'filter')"
TypeErrorFind == "Cannot read properties of undefined (reading 'find')"

\* The last signal of the category wins instead of the first.
SetStop500Last(h, ref, ramp, list) ==
    IF Len(list) > 0 THEN [h EXCEPT ![ref][ramp]["500"] = list[Len(list)].hex] ELSE h

\* The ramp is replaced by an object holding the one stop.
SetStop500Replace(h, ref, ramp, list) ==
    IF Len(list) > 0 THEN [h EXCEPT ![ref][ramp] = ("500" :> list[1].hex)] ELSE h

\* tokens.<ramp>['500'] = <list>[0].hex, when the list is not empty.
SetStop500(h, ref, ramp, list) ==
    IF Len(list) > 0 THEN [h EXCEPT ![ref][ramp]["500"] = list[1].hex] ELSE h

\* convertColorsToTokens(brandingData.colors): the default tokens are built,
\* then colors.filter throws a TypeError when colors is undefined.
convertColorsToTokens(brandingData, h) ==
    LET tokens == generateDefaultColorTokens(h) IN
    IF ~Has(brandingData, "colors") THEN Throw(tokens.heap, TypeErrorFilter)
    ELSE
    LET colors == brandingData.colors
        h1 == SetStop500(tokens.heap, tokens.ref, "primary",
                         FilterCategory(colors, "primary"))
        h2 == SetStop500(h1, tokens.ref, "secondary", FilterCategory(colors, "secondary"))
        h3 == SetStop500(h2, tokens.ref, "accent", FilterCategory(colors, "accent"))
    IN  Return(h3, tokens.ref)

\* tokens.families.<slot> = `${font.family}, sans-serif`, when a font was found.
SetFamily(h, ref, slot, found) ==
    IF Len(found) = 0 THEN h
    ELSE [h EXCEPT ![ref].families =
              (slot :> (found[1].family \o ", sans-serif")) @@ h[ref].families]

\* convertTypographyToTokens(brandingData.typography)
convertTypographyToTokens(brandingData, h) ==
    LET tokens == generateDefaultTypographyTokens(h) IN
    IF ~Has(brandingData, "typography") THEN Throw(tokens.heap, TypeErrorFind)
    ELSE
    LET typography == brandingData.typography
        h1 == SetFamily(tokens.heap, tokens.ref, "heading", FindCategory(typography, "heading"))
        h2 == SetFamily(h1, tokens.ref, "body", FindCategory(typography, "body"))
        h3 == SetFamily(h2, tokens.ref, "accent", FindCategory(typography, "accent"))
    IN  Return(h3, tokens.ref)

\* brandingData.brandName || 'Marca sin nombre': undefined and '' are falsy.
BrandNameOrFallback(brandingData) ==
    IF Has(brandingData, "brandName") /\ brandingData.brandName # ""
    THEN brandingData.brandName
    ELSE "Marca sin nombre"

\* generateDesignTokens(brandingData) at instant `now`: the DesignTokens object
\* holds references to its three groups.
generateDesignTokens(brandingData, h, now) ==
    LET c == convertColorsToTokens(brandingData, h) IN
    IF c.threw THEN c
    ELSE
    LET t == convertTypographyToTokens(brandingData, c.heap) IN
    IF t.threw THEN t
    ELSE
    LET sp == generateDefaultSpacingTokens(t.heap)
    IN  Return(sp.heap,
               [colors |-> c.value,
                typography |-> t.value,
                spacing |-> sp.ref,
                metadata |-> [brandName |-> BrandNameOrFallback(brandingData),
                              version |-> "1.0.0",
                              createdAt |-> now]])

\* The token set as a reader of the returned object sees it at that moment.
Snapshot(tokens, h) ==
    [colors |-> h[tokens.colors],
     typography |-> h[tokens.typography],
     spacing |-> h[tokens.spacing],
     metadata |-> tokens.metadata]

-----------------------------------------------------------------------------
(* The format renderer. A rendered text is the sequence of its lines (the   *)
(* code ends every line it appends with "\n").                              *)

\* Own-property order of the token objects: integer-like keys ascending, then
\* the other keys in insertion order; with the literals above that is the
\* order in which the literals list their keys.
RampKeyOrder == <<"50", "100", "200", "300", "400", "500", "600", "700", "800", "900",
                  "white", "black">>
FeedbackKeyOrder == <<"success", "warning", "error", "info">>
WeightKeyOrder == <<"light", "regular", "medium", "semibold", "bold", "extraBold">>
SizeKeyOrder == <<"base", "xs", "sm", "md", "lg", "xl", "xxl", "xxxl">>
LineHeightKeyOrder == <<"tight", "normal", "loose">>
SpacingKeyOrder == <<"base", "xs", "sm", "md", "lg", "xl", "xxl">>

\* Object.entries(obj): <<key, value>> pairs of the keys obj has, in key order.
ObjectEntries(obj, order) ==
    LET keys == SelectSeq(order, LAMBDA k : k \in DOMAIN obj)
    IN  [i \in 1..Len(keys) |-> <<keys[i], obj[keys[i]]>>]

\* obj.key in a template literal: the text "undefined" when the key is absent.
Prop(obj, key) == IF Has(obj, key) THEN obj[key] ELSE "undefined"

\* One line per entry: open + prefix + key + ": " + value + ";"
\* (a number is shown in decimal).
EntryLines(entries, open, prefix, numeric) ==
    [i \in 1..Len(entries) |->
        open \o prefix \o entries[i][1] \o ": "
            \o (IF numeric THEN ToDecimal(entries[i][2]) ELSE entries[i][2]) \o ";"]

\* The declarations shared by both variable formats, group by group, each
\* variable opened by `open` ("  --" in CSS, "$" in SCSS).
ColorRampLines(colors, ramp, open) ==
    EntryLines(ObjectEntries(colors[ramp], RampKeyOrder), open, "color-" \o ramp \o "-", FALSE)
FeedbackLines(colors, open) ==
    EntryLines(ObjectEntries(colors.feedback, FeedbackKeyOrder), open, "color-", FALSE)
FamilyLines(typography, open) ==
    << open \o "font-family-heading: " \o Prop(typography.families, "heading") \o ";",
       open \o "font-family-body: " \o Prop(typography.families, "body") \o ";" >>
    \o (IF Has(typography.families, "accent") /\ typography.families.accent # ""
        THEN << open \o "font-family-accent: " \o typography.families.accent \o ";" >>
        ELSE <<>>)
WeightLines(typography, open) ==
    EntryLines(ObjectEntries(typography.weights, WeightKeyOrder), open, "font-weight-", TRUE)
SizeLines(typography, open) ==
    EntryLines(ObjectEntries(typography.sizes, SizeKeyOrder), open, "font-size-", FALSE)
LineHeightLines(typography, open) ==
    EntryLines(ObjectEntries(typography.lineHeights, LineHeightKeyOrder), open,
               "line-height-", FALSE)
SpacingLines(spacing, open) ==
    EntryLines(ObjectEntries(spacing, SpacingKeyOrder), open, "spacing-", FALSE)

\* generateCSSVariables(tokens); t is the token set as read through the heap.
generateCSSVariables(t) ==
    <<":root {">>
    \o ColorRampLines(t.colors, "primary", "  --")
    \o ColorRampLines(t.colors, "secondary", "  --")
    \o ColorRampLines(t.colors, "accent", "  --")
    \o ColorRampLines(t.colors, "neutral", "  --")
    \o FeedbackLines(t.colors, "  --")
    \o FamilyLines(t.typography, "  --")
    \o WeightLines(t.typography, "  --")
    \o SizeLines(t.typography, "  --")
    \o LineHeightLines(t.typography, "  --")
    \o (IF Has(t, "spacing") THEN SpacingLines(t.spacing, "  --") ELSE <<>>)
    \o <<"}">>

\* generateSCSSVariables(tokens)
generateSCSSVariables(t) ==
    << "// Design Tokens generados a partir de la identidad de marca",
       "// Marca: " \o t.metadata.brandName,
       "// Versión: " \o t.metadata.version,
       "",
       "// Colores Primarios" >>
    \o ColorRampLines(t.colors, "primary", "$")
    \o <<"", "// Colores Secundarios">>
    \o ColorRampLines(t.colors, "secondary", "$")
    \o <<"", "// Colores de Acento">>
    \o ColorRampLines(t.colors, "accent", "$")
    \o <<"", "// Colores Neutrales">>
    \o ColorRampLines(t.colors, "neutral", "$")
    \o <<"", "// Colores de Feedback">>
    \o FeedbackLines(t.colors, "$")
    \o <<"", "// Tipografía">>
    \o FamilyLines(t.typography, "$")
    \o <<"", "// Pesos tipográficos">>
    \o WeightLines(t.typography, "$")
    \o <<"", "// Tamaños de fuente">>
    \o SizeLines(t.typography, "$")
    \o <<"", "// Alturas de línea">>
    \o LineHeightLines(t.typography, "$")
    \o (IF Has(t, "spacing")
        THEN <<"", "// Espaciado">> \o SpacingLines(t.spacing, "$")
        ELSE <<>>)

\* JSON.stringify(value, null, 2): the text is kept as the tree it writes
\* (fields in definition order, undefined fields left out, which the object
\* model above already does).
JSONStringify(value) == [kind |-> "json", tree |-> value]
Lines(ls) == [kind |-> "lines", lines |-> ls]

\* convertTokensToFormat(tokens, format): any other format gives JSON.
\* The switch without its 'scss' case.
FormatSwitchWithoutScss(t, format) ==
    CASE format = "css" -> Lines(generateCSSVariables(t))
      [] OTHER -> JSONStringify(t)

\* The switch of convertTokensToFormat on the token set t.
FormatSwitch(t, format) ==
    CASE format = "json" -> JSONStringify(t)
      [] format = "css" -> Lines(generateCSSVariables(t))
      [] format = "scss" -> Lines(generateSCSSVariables(t))
      [] OTHER -> JSONStringify(t)

convertTokensToFormat(tokens, h, format) == FormatSwitch(Snapshot(tokens, h), format)

-----------------------------------------------------------------------------
(* The tool handlers. A request is request.params: [name, arguments]; an     *)
(* absent property is a key the record does not have. What a handler returns *)
(* is a record: ReturnedUndefined for "return;", else the response object.  *)
(* An Error is represented by its message.                                   *)

ReturnedUndefined == [undefined |-> TRUE]

PlainText(str) == [kind |-> "plain", value |-> str]

SuccessResponse(t) == [content |-> << [type |-> "text", text |-> t] >>]

\* `Error: ${error instanceof Error ? error.message : String(error)}`
ErrorResponse(error) ==
    [content |-> << [type |-> "text", text |-> PlainText("Error: " \o error)] >>,
     isError |-> TRUE]

\* new McpError(ErrorCode.InvalidParams, message).message
McpErrorInvalidParams(message) == "MCP error -32602: " \o message

\* Destructuring request.params.arguments when it is undefined.
TypeErrorDestructure(property) ==
    "Cannot destructure property '" \o property
        \o "' of 'request.params.arguments' as it is undefined."

LogInfo(message) == [level |-> "info", message |-> message]
LogError(message, error) == [level |-> "error", message |-> message, error |-> error]

\* The files extractBrandingFromPDF can be pointed at: a path that is not a
\* key does not exist; pdfParse rejects the bytes of a file that is not a PDF.
FileSystem ==
    [p \in {"/brand.pdf", "/guide.pdf", "/plain.pdf", "/corrupt.pdf"} |->
        CASE p = "/brand.pdf" ->
                 [valid |-> TRUE,
                  text |-> "Brand Name: Acme\n#0066C5 Lato logo"]
          [] p = "/guide.pdf" ->
                 [valid |-> TRUE,
                  text |-> "Marca Zeta RGB(1, 2, 3) Arial Isotipo"]
          [] p = "/plain.pdf" ->
                 [valid |-> TRUE,
                  text |-> "Logotipo de Orion #abc rgb(9,9,9)"]
          [] p = "/corrupt.pdf" -> [valid |-> FALSE]]

existsSync(path) == path \in DOMAIN FileSystem
readFileSync(path) == FileSystem[path]
PdfParseError == "Invalid PDF structure"

\* options.flag === true
OptionIsTrue(options, flag) == Has(options, flag) /\ options[flag] = TRUE

\* options.flag !== false
OptionNotFalse(options, flag) == ~(Has(options, flag) /\ options[flag] = FALSE)

\* extractBrandingFromPDF up to "await pdfParse(dataBuffer)": the exception it
\* throws with the line its catch block logs, or the frame it suspends with;
\* `calls` lists the collaborators it called, in order.
ExtractBrandingBegin(pdfPath, options) ==
    IF ~existsSync(pdfPath)
    THEN LET error == "El archivo PDF no existe: " \o pdfPath
         IN  [threw |-> TRUE, error |-> error,
              log |-> <<LogError("Error extracting branding from PDF:", error)>>,
              calls |-> <<"existsSync">>]
    ELSE [threw |-> FALSE,
          frame |-> [pdfPath |-> pdfPath, options |-> options,
                     dataBuffer |-> readFileSync(pdfPath)],
          log |-> <<>>,
          calls |-> <<"existsSync", "readFileSync", "pdfParse">>]

\* The returned object literal as JSON.stringify shows it: a brandName that is
\* undefined is left out.
BrandingDataOf(colors, typography, logos, brandName) ==
    LET base == [colors |-> colors, typography |-> typography, logos |-> logos]
    IN  IF brandName = <<>> THEN base
        ELSE [k \in DOMAIN base \cup {"brandName"} |->
                 IF k = "brandName" THEN brandName[1] ELSE base[k]]

\* extractBrandingFromPDF from the point where pdfParse settles.
ExtractBrandingResume(frame) ==
    IF ~frame.dataBuffer.valid
    THEN [threw |-> TRUE, error |-> PdfParseError,
          log |-> <<LogError("Error extracting branding from PDF:", PdfParseError)>>]
    ELSE
    LET t == frame.dataBuffer.text
        options == frame.options
    IN  [threw |-> FALSE,
         value |-> BrandingDataOf(
             IF OptionNotFalse(options, "extractColors") THEN extractColors(t) ELSE <<>>,
             IF OptionNotFalse(options, "extractTypography") THEN extractTypography(t) ELSE <<>>,
             IF OptionNotFalse(options, "extractLogos") THEN extractLogos(t) ELSE <<>>,
             extractBrandName(t)),
         log |-> <<>>]

PdfToolName == "extract_pdf_branding"
TokenToolName == "generate_design_tokens"

\* The error propagates out of the handler: its promise rejects.
PdfHandlerRejects(error, logged, called) ==
    [suspended |-> FALSE,
     resp |-> [rejected |-> TRUE, error |-> error],
     log |-> logged,
     calls |-> called]

\* The catch block of the extract_pdf_branding handler.
PdfHandlerCatch(error, logged, called) ==
    [suspended |-> FALSE,
     resp |-> ErrorResponse(error),
     log |-> logged \o <<LogError("Error en la herramienta extract_pdf_branding:", error)>>,
     calls |-> called]

\* The extract_pdf_branding handler from its call to its first await.
PdfHandlerBegin(req) ==
    IF req.name # PdfToolName
    THEN [suspended |-> FALSE, resp |-> ReturnedUndefined, log |-> <<>>, calls |-> <<>>]
    ELSE IF ~Has(req, "arguments")
    THEN PdfHandlerCatch(TypeErrorDestructure("pdfPath"), <<>>, <<>>)
    ELSE IF ~Has(req.arguments, "pdfPath") \/ req.arguments.pdfPath = ""
    THEN PdfHandlerCatch(
             McpErrorInvalidParams("Se requiere la ruta al archivo PDF (pdfPath)"),
             <<>>, <<>>)
    ELSE
    LET pdfPath == req.arguments.pdfPath
        options == IF Has(req.arguments, "extractOptions")
                   THEN req.arguments.extractOptions ELSE NoFields
        info == LogInfo("Extrayendo información de branding del PDF: " \o pdfPath)
        b == ExtractBrandingBegin(pdfPath, options)
    IN  IF b.threw
        THEN PdfHandlerCatch(b.error, <<info>> \o b.log, <<"extractBrandingFromPDF">> \o b.calls)
        ELSE [suspended |-> TRUE, frame |-> b.frame, log |-> <<info>>,
              calls |-> <<"extractBrandingFromPDF">> \o b.calls]

\* The extract_pdf_branding handler from the point where the await settles.
PdfHandlerResume(frame) ==
    LET r == ExtractBrandingResume(frame) IN
    IF r.threw THEN PdfHandlerCatch(r.error, r.log, <<>>)
    ELSE [suspended |-> FALSE,
          resp |-> SuccessResponse(JSONStringify(r.value)),
          log |-> <<>>,
          calls |-> <<>>]

\* { ...brandingData, ...figmaData }
Spread(a, b) == [k \in DOMAIN a \cup DOMAIN b |-> IF k \in DOMAIN b THEN b[k] ELSE a[k]]

\* The catch block of the generate_design_tokens handler.
TokenHandlerCatch(error, logged, h, called) ==
    [resp |-> ErrorResponse(error),
     log |-> logged \o <<LogError("Error en la herramienta generate_design_tokens:", error)>>,
     heap |-> h,
     calls |-> called]

\* The generate_design_tokens handler; it has no await.
TokenHandler(req, h, now) ==
    IF req.name # TokenToolName
    THEN [resp |-> ReturnedUndefined, log |-> <<>>, heap |-> h, calls |-> <<>>]
    ELSE IF ~Has(req, "arguments")
    THEN TokenHandlerCatch(TypeErrorDestructure("brandingData"), <<>>, h, <<>>)
    ELSE IF ~Has(req.arguments, "brandingData")
    THEN TokenHandlerCatch(
             McpErrorInvalidParams("Se requieren los datos de branding (brandingData)"),
             <<>>, h, <<>>)
    ELSE
    LET format == IF Has(req.arguments, "format") THEN req.arguments.format ELSE "json"
        info == LogInfo("Generando tokens de diseño a partir de datos de branding")
        combinedData == IF Has(req.arguments, "figmaData")
                        THEN Spread(req.arguments.brandingData, req.arguments.figmaData)
                        ELSE req.arguments.brandingData
        r == generateDesignTokens(combinedData, h, now)
    IN  IF r.threw THEN TokenHandlerCatch(r.error, <<info>>, r.heap, <<"generateDesignTokens">>)
        ELSE [resp |-> SuccessResponse(convertTokensToFormat(r.value, r.heap, format)),
              log |-> <<info>>,
              heap |-> r.heap,
              calls |-> <<"generateDesignTokens", "convertTokensToFormat">>]

-----------------------------------------------------------------------------
(* The server (index.ts): the handler table of the SDK's Server and the      *)
(* registrations the constructor of BrandToThemeServer makes. A handler is   *)
(* named by the function that registers it.                                  *)

CallToolMethod == "tools/call"                 \* CallToolRequestSchema
ListToolsMethod == "tools/list"                \* ListToolsRequestSchema
ListResourcesMethod == "resources/list"        \* ListResourcesRequestSchema
ListResourceTemplatesMethod == "resources/templates/list"
ReadResourceMethod == "resources/read"         \* ReadResourceRequestSchema

\* Server.setRequestHandler: the table has one entry per method, and setting
\* a method's handler replaces the handler the method had.
setRequestHandler(handlers, method, handler) ==
    [m \in DOMAIN handlers \cup {method} |-> IF m = method THEN handler ELSE handlers[m]]

registerPdfExtractorTool(handlers) ==
    setRequestHandler(handlers, CallToolMethod, "registerPdfExtractorTool")

registerDesignTokenTool(handlers) ==
    setRequestHandler(handlers, CallToolMethod, "registerDesignTokenTool")

\* ShopifyGenerator and ShopifyInstaller are imported by index.ts; they
\* register on the call-tool schema like the two registrars above.
registerShopifyThemeGenerator(handlers) ==
    setRequestHandler(handlers, CallToolMethod, "registerShopifyThemeGenerator")

registerShopifyThemeInstaller(handlers) ==
    setRequestHandler(handlers, CallToolMethod, "registerShopifyThemeInstaller")

setupTools(handlers) ==
    setRequestHandler(
        registerShopifyThemeInstaller(
            registerShopifyThemeGenerator(
                registerDesignTokenTool(
                    registerPdfExtractorTool(handlers)))),
        ListToolsMethod, "listTools")

setupResourceHandlers(handlers) ==
    setRequestHandler(
        setRequestHandler(
            setRequestHandler(handlers, ListResourcesMethod, "listResources"),
            ListResourceTemplatesMethod, "listResourceTemplates"),
        ReadResourceMethod, "readResource")

\* The table of `new Server(...)`, before any registration.
NewServerHandlers == [m \in {} |-> ""]

\* The table the constructor of BrandToThemeServer leaves.
ConstructedHandlers == setupResourceHandlers(setupTools(NewServerHandlers))

\* The tool names of the list-tools answer, by the registrar whose handler
\* answers to them.
ToolsOf(handler) ==
    CASE handler = "registerPdfExtractorTool" -> {PdfToolName}
      [] handler = "registerDesignTokenTool" -> {TokenToolName}
      [] handler = "registerShopifyThemeGenerator" ->
             {"create_shopify_theme", "preview_shopify_theme"}
      [] handler = "registerShopifyThemeInstaller" -> {"install_shopify_theme"}
      [] OTHER -> {}

ShopifyTools ==
    ToolsOf("registerShopifyThemeGenerator") \cup ToolsOf("registerShopifyThemeInstaller")

\* A handler of the two Shopify registrars. It answers with a success or an
\* error payload of its own; for a request that names another tool it may also
\* return undefined, as the two handlers above do.
ShopifyHandlerOutcomes(handler, req) ==
    LET answers == {SuccessResponse(PlainText(handler)), ErrorResponse(handler)}
    IN  IF req.name \notin ToolsOf(handler)
        THEN {ReturnedUndefined} \cup answers
        ELSE answers

\* One handler run from its call to its return, the await included: the set
\* of results [resp, log, heap] it can have.
HandlerOutcomes(handler, req, h, now) ==
    CASE handler = "registerPdfExtractorTool" ->
             LET b == PdfHandlerBegin(req) IN
             IF ~b.suspended THEN {[resp |-> b.resp, log |-> b.log, heap |-> h]}
             ELSE LET r == PdfHandlerResume(b.frame)
                  IN  {[resp |-> r.resp, log |-> b.log \o r.log, heap |-> h]}
      [] handler = "registerDesignTokenTool" ->
             LET r == TokenHandler(req, h, now)
             IN  {[resp |-> r.resp, log |-> r.log, heap |-> r.heap]}
      [] OTHER -> {[resp |-> resp, log |-> <<>>, heap |-> h] :
                      resp \in ShopifyHandlerOutcomes(handler, req)}

-----------------------------------------------------------------------------
(* The parts of the state a specification does not exercise stay as built. *)

IdleExtractor ==
    text = "" /\ colorsOut = <<>> /\ typographyOut = <<>> /\ brandNameOut = <<>>
IdleSynthesizer ==
    /\ profile = <<>> /\ synthOut = <<>> /\ rendered = <<>>
    /\ heap = <<>> /\ clock = 0 /\ runs = <<>>
IdleHandlers == inflight = <<>> /\ responses = <<>> /\ log = <<>>
IdleServer == requestHandlers = ConstructedHandlers /\ served = <<>>

extractorVars == <<text, colorsOut, typographyOut, brandNameOut>>
synthVars == <<profile, synthOut, rendered, heap, clock, runs>>
handlerVars == <<inflight, responses, log>>
serverVars == <<requestHandlers, served>>

-----------------------------------------------------------------------------
(* SpecExtract: the extractor's pure functions applied to bounded texts.    *)

MaxColorFrags == 3
MaxFontFrags == 3

\* Pieces of document text around color notation; texts are concatenations.
ColorFragments ==
    { "#111111", "#0066C5 #abc", "abc ", " RGB(0, 102, 197)",
      "rgb( 1,256 ,0 )", "RGB(0,0", "0)" }

\* Pieces of document text around typeface names.
FontFragments ==
    { "Roboto", " ", "ARIAL", "Times", " New Roman", "s", "Open Sans", "-Lato-" }

RECURSIVE Concats(_, _)
Concats(F, n) ==
    IF n = 0 THEN {""}
    ELSE LET prev == Concats(F, n - 1) IN prev \cup {p \o f : p \in prev, f \in F}

\* Values of one RGB component: in range, out of range, one to three digits.
RgbComponents == {0, 7, 16, 102, 197, 255, 256, 999}

RgbTexts ==
    { "RGB(" \o ToDecimal(r) \o ", " \o ToDecimal(g) \o ", " \o ToDecimal(b) \o ")" :
        r \in RgbComponents, g \in RgbComponents, b \in RgbComponents }

Texts ==
    Concats(ColorFragments, MaxColorFrags) \cup RgbTexts
        \cup Concats(FontFragments, MaxFontFrags)

InitExtract ==
    /\ text \in Texts
    /\ colorsOut = <<>>
    /\ typographyOut = <<>>
    /\ brandNameOut = <<>>
    /\ IdleSynthesizer /\ IdleHandlers /\ IdleServer

RunExtractColors ==
    /\ colorsOut = <<>>
    /\ colorsOut' = <<extractColors(text)>>
    /\ UNCHANGED <<text, typographyOut, brandNameOut, synthVars, handlerVars, serverVars>>

RunExtractTypography ==
    /\ typographyOut = <<>>
    /\ typographyOut' = <<extractTypography(text)>>
    /\ UNCHANGED <<text, colorsOut, brandNameOut, synthVars, handlerVars, serverVars>>

NextExtract == RunExtractColors \/ RunExtractTypography

SpecExtract == InitExtract /\ [][NextExtract]_vars

-----------------------------------------------------------------------------
(* Claims about extractColors and extractTypography (SpecExtract).          *)

ColorsReturned == colorsOut # <<>>
TypographyReturned == typographyOut # <<>>

\* The hex value the code gives the k-th RGB match of the text.
RgbHexOf(m) == rgbToHex(parseInt(m.g1), parseInt(m.g2), parseInt(m.g3))

\* The RGB matches that survive the duplicate check: no hex literal and no
\* earlier RGB match has the same hex value, ignoring case.
RgbSurvivors(s) ==
    LET hm == hexMatches(s)
        rm == rgbMatches(s)
    IN  { k \in 1..Len(rm) :
            /\ \A i \in 1..Len(hm) : toLowerCase(hm[i]) # toLowerCase(RgbHexOf(rm[k]))
            /\ \A j \in 1..(k - 1) : RgbHexOf(rm[j]) # RgbHexOf(rm[k]) }

\* C2: extractColors returns every hex match first, in document order, the
\* match at index 0 primary, at index 1 secondary, every later one accent, the
\* match at index i named "Color {i+1}"; then the non-duplicate RGB matches in
\* document order, each without a category.
C2_HexMatchesThenRgb ==
    ColorsReturned =>
        LET out == colorsOut[1]
            hm == hexMatches(text)
            n == Len(hm)
            rm == rgbMatches(text)
            surv == RgbSurvivors(text)
            Rank(k) == Cardinality({j \in surv : j <= k})
        IN  /\ Len(out) = n + Cardinality(surv)
            /\ \A i \in 1..n :
                /\ out[i].hex = hm[i]
                /\ out[i].name = "Color " \o ToDecimal(i)
                /\ DOMAIN out[i] = {"name", "hex", "category"}
                /\ out[i].category =
                      CASE i = 1 -> "primary" [] i = 2 -> "secondary" [] OTHER -> "accent"
            /\ \A k \in surv :
                /\ out[n + Rank(k)].hex = RgbHexOf(rm[k])
                /\ "category" \notin DOMAIN out[n + Rank(k)]

\* Three hex literals and a surviving RGB expression were extracted.
C2_Witness ==
    /\ ColorsReturned
    /\ Len(hexMatches(text)) = 3
    /\ Len(colorsOut[1]) = 4
    /\ colorsOut[1][3].category = "accent"
    /\ "category" \notin DOMAIN colorsOut[1][4]

\* C3 as stated: no two signals returned by extractColors have hex values that
\* are equal ignoring case.
C3_NoTwoEqualHex ==
    ColorsReturned =>
        \A i, j \in 1..Len(colorsOut[1]) :
            i < j => toLowerCase(colorsOut[1][i].hex) # toLowerCase(colorsOut[1][j].hex)

\* C3 amended: a signal produced from an RGB expression never has the hex value
\* (ignoring case) of an earlier signal of the list; two signals share a hex
\* value only when both come from hex literals of the text.
C3_NoRgbDuplicate ==
    ColorsReturned =>
        LET out == colorsOut[1]
            n == Len(hexMatches(text))
        IN  \A i, j \in 1..Len(out) :
                (i < j /\ toLowerCase(out[i].hex) = toLowerCase(out[j].hex)) => j <= n

\* An RGB expression whose hex value differs only in case from a hex literal of
\* the text was dropped.
C3_Witness ==
    /\ ColorsReturned
    /\ \E k \in 1..Len(rgbMatches(text)) : \E i \in 1..Len(hexMatches(text)) :
          /\ hexMatches(text)[i] # RgbHexOf(rgbMatches(text)[k])
          /\ toLowerCase(hexMatches(text)[i]) = RgbHexOf(rgbMatches(text)[k])
    /\ Len(colorsOut[1]) = Len(hexMatches(text))

RECURSIVE BitOr(_, _)
BitOr(a, b) ==
    IF a = 0 THEN b
    ELSE IF b = 0 THEN a
    ELSE 2 * BitOr(a \div 2, b \div 2) + (IF a % 2 = 1 \/ b % 2 = 1 THEN 1 ELSE 0)

RECURSIVE ZeroPad6(_)
ZeroPad6(d) == IF Len(d) >= 6 THEN d ELSE ZeroPad6("0" \o d)

RgbStringOf(m) == "rgb(" \o m.g1 \o ", " \o m.g2 \o ", " \o m.g3 \o ")"

\* Every RGB match has a signal with the hex value Hex(r, g, b), and every
\* signal made from an RGB match carries exactly that value.
RgbHexIs(Hex(_, _, _)) ==
    ColorsReturned =>
        LET out == colorsOut[1]
            rm == rgbMatches(text)
            Want(m) == Hex(parseInt(m.g1), parseInt(m.g2), parseInt(m.g3))
        IN  /\ \A k \in 1..Len(rm) :
                \E i \in 1..Len(out) : toLowerCase(out[i].hex) = Want(rm[k])
            /\ \A i \in 1..Len(out) :
                "rgb" \in DOMAIN out[i] =>
                    \E k \in 1..Len(rm) :
                        /\ out[i].rgb = RgbStringOf(rm[k])
                        /\ out[i].hex = Want(rm[k])

ClaimedPacking(r, g, b) ==
    "#" \o ZeroPad6(toString16(BitOr(BitOr(r * 65536, g * 256), b)))
Low24Packing(r, g, b) ==
    "#" \o ZeroPad6(toString16((r * 65536 + g * 256 + b) % 16777216))

\* C4 as stated: for components of one to three digits the hex value is '#'
\* and r<<16 | g<<8 | b in lowercase hexadecimal, zero-padded to 6 digits.
C4_HexIsBitwisePacking == RgbHexIs(ClaimedPacking)

\* C4 amended: the hex value is '#' and the low 24 bits of the sum
\* r*65536 + g*256 + b in lowercase hexadecimal, zero-padded to exactly 6
\* digits; with every component at most 255 that is r<<16 | g<<8 | b.
C4_HexIsLow24OfSum ==
    /\ RgbHexIs(Low24Packing)
    /\ ColorsReturned =>
          /\ \A i \in 1..Len(colorsOut[1]) :
                "rgb" \in DOMAIN colorsOut[1][i] => Len(colorsOut[1][i].hex) = 7
          /\ \A k \in 1..Len(rgbMatches(text)) :
                LET m == rgbMatches(text)[k]
                    r == parseInt(m.g1)
                    g == parseInt(m.g2)
                    b == parseInt(m.g3)
                IN  (r <= 255 /\ g <= 255 /\ b <= 255) =>
                        Low24Packing(r, g, b) = ClaimedPacking(r, g, b)

\* RGB(0, 102, 197) was converted to #0066c5 (a result that needs zero padding).
C4_Witness ==
    /\ text = "RGB(0, 102, 197)"
    /\ ColorsReturned
    /\ colorsOut[1][1].hex = "#0066c5"

\* The known family names the text mentions, in the order of the fixed list.
FontsMentioned(s) ==
    LET hit == {k \in 1..Len(commonFonts) : fontRegexTest(commonFonts[k], s, toLowerCase(s))}
    IN  [j \in 1..Cardinality(hit) |->
            CHOOSE k \in hit : Cardinality({h \in hit : h <= k}) = j]

\* C5: extractTypography emits one signal per known family name occurring in
\* the text, in the order of the fixed list, the first heading and every later
\* one body; with no known family it returns [{Arial, heading}, {Helvetica,
\* body}]. The result is never empty and has its one heading signal at index 0.
C5_TypographyInListOrder ==
    TypographyReturned =>
        LET out == typographyOut[1]
            fm == FontsMentioned(text)
        IN  /\ Len(fm) = 0 =>
                out = << [family |-> "Arial", category |-> "heading"],
                         [family |-> "Helvetica", category |-> "body"] >>
            /\ Len(fm) > 0 =>
                /\ Len(out) = Len(fm)
                /\ \A j \in 1..Len(fm) : out[j].family = commonFonts[fm[j]]
            /\ Len(out) > 0
            /\ \A j \in 1..Len(out) : out[j].category = IF j = 1 THEN "heading" ELSE "body"

\* A text naming Roboto before Arial yields Arial (heading) before Roboto (body).
C5_Witness ==
    /\ text = "Roboto ARIAL"
    /\ typographyOut = << << [family |-> "Arial", category |-> "heading"],
                             [family |-> "Roboto", category |-> "body"] >> >>

-----------------------------------------------------------------------------
(* SpecSynth: one synthesis, then one rendering, of a bounded BrandingData. *)

MaxProfileColors == 2

\* ColorInfo objects as the extractor or a caller's JSON may supply them.
SignalPool ==
    { [name |-> "Color 1", hex |-> "#ff0000", category |-> "primary"],
      [name |-> "Color 9", hex |-> "#AA00AA", category |-> "primary"],
      [name |-> "Color 2", hex |-> "#00ff00", category |-> "secondary"],
      [name |-> "Color 3", hex |-> "#123456", category |-> "accent"],
      [name |-> "Gris", hex |-> "#777777", category |-> "neutral"],
      [name |-> "Color RGB 4", hex |-> "#0a0b0c", rgb |-> "rgb(10, 11, 12)"] }

RECURSIVE SeqsUpTo(_, _)
SeqsUpTo(S, n) ==
    IF n = 0 THEN {<<>>}
    ELSE LET prev == SeqsUpTo(S, n - 1) IN prev \cup {Append(q, x) : q \in prev, x \in S}

TypographyLists ==
    { <<>>,
      << [family |-> "Roboto", category |-> "heading"],
         [family |-> "Lato", category |-> "body"],
         [family |-> "Times", category |-> "body"] >>,
      << [family |-> "Oswald", category |-> "accent"], [family |-> "Noto"] >> }


\* An object with the one field, or without it when the field is absent.
Optional(key, values) == {NoFields} \cup {key :> v : v \in values}

Profiles ==
    { c @@ t @@ l @@ b :
        c \in Optional("colors", SeqsUpTo(SignalPool, MaxProfileColors)),
        t \in Optional("typography", TypographyLists),
        l \in Optional("logos", {<<>>}),
        b \in Optional("brandName", {"", "Acme"}) }

Formats == {"json", "css", "scss", "yaml"}

InitSynth ==
    /\ profile \in Profiles
    /\ synthOut = <<>>
    /\ rendered = <<>>
    /\ heap = <<>>
    /\ clock = 0
    /\ runs = <<>>
    /\ IdleExtractor /\ IdleHandlers /\ IdleServer

\* What a call of generateDesignTokens leaves with its caller: the exception,
\* or the returned object and the token set read through it.
Outcome(r) ==
    IF r.threw THEN [threw |-> TRUE, error |-> r.error]
    ELSE [threw |-> FALSE, value |-> r.value, tokens |-> Snapshot(r.value, r.heap)]

Synthesize ==
    /\ synthOut = <<>>
    /\ LET r == generateDesignTokens(profile, heap, clock)
       IN  /\ synthOut' = <<Outcome(r)>>
           /\ heap' = r.heap
    /\ clock' = clock + 1
    /\ UNCHANGED <<profile, rendered, runs, extractorVars, handlerVars, serverVars>>

Render ==
    /\ synthOut # <<>>
    /\ ~synthOut[1].threw
    /\ rendered = <<>>
    /\ \E format \in Formats :
          rendered' = << [format |-> format,
                          text |-> convertTokensToFormat(synthOut[1].value, heap, format)] >>
    /\ UNCHANGED <<profile, synthOut, heap, clock, runs,
                   extractorVars, handlerVars, serverVars>>

NextSynth == Synthesize \/ Render

SpecSynth == InitSynth /\ [][NextSynth]_vars

-----------------------------------------------------------------------------
(* Claims about synthesis and rendering (SpecSynth).                        *)

Synthesized == synthOut # <<>>
SynthesisReturned == synthOut # <<>> /\ ~synthOut[1].threw

\* The first signal of the category in the list, as <<signal>>, or <<>>.
FirstOfCategory(list, cat) ==
    LET idx == {i \in 1..Len(list) : Has(list[i], "category") /\ list[i].category = cat}
    IN  IF idx = {} THEN <<>>
        ELSE <<list[CHOOSE i \in idx : \A j \in idx : i <= j]>>

\* C1: synthesis changes only the '500' stop of the primary, secondary and
\* accent ramps, each only when the color list holds a signal of that category,
\* and writes the hex of the first such signal in list order; every other stop,
\* the neutral ramp and the feedback colors equal the baseline, and with an
\* empty typography list the typography equals the baseline defaults.
C1_OnlyStop500Overridden ==
    (Synthesized /\ Has(profile, "colors") /\ Has(profile, "typography")) =>
        /\ ~synthOut[1].threw
        /\ LET tk == synthOut[1].tokens.colors
               base == DefaultColorTokens
           IN  /\ DOMAIN tk = DOMAIN base
               /\ \A ramp \in {"primary", "secondary", "accent"} :
                    /\ DOMAIN tk[ramp] = DOMAIN base[ramp]
                    /\ \A stop \in DOMAIN base[ramp] \ {"500"} :
                          tk[ramp][stop] = base[ramp][stop]
                    /\ LET first == FirstOfCategory(profile.colors, ramp)
                       IN  tk[ramp]["500"] =
                              IF first = <<>> THEN base[ramp]["500"] ELSE first[1].hex
               /\ tk.neutral = base.neutral
               /\ tk.feedback = base.feedback
        /\ profile.typography = <<>> =>
              synthOut[1].tokens.typography = DefaultTypographyTokens

\* The profile with the one primary color #ff0000 was synthesized.
C1_Witness ==
    /\ profile = [colors |-> << [name |-> "Color 1", hex |-> "#ff0000",
                                 category |-> "primary"] >>,
                  typography |-> <<>>, logos |-> <<>>]
    /\ SynthesisReturned
    /\ synthOut[1].tokens.colors.primary["500"] = "#ff0000"
    /\ synthOut[1].tokens.colors.secondary = DefaultColorTokens.secondary
    /\ synthOut[1].tokens.typography = DefaultTypographyTokens

\* C6 as stated: synthesis never throws, also when colors, typography, logos
\* or brandName are absent or empty, and the absent parts take the baseline.
C6_SynthesisTotal ==
    Synthesized =>
        /\ ~synthOut[1].threw
        /\ ~Has(profile, "colors") => synthOut[1].tokens.colors = DefaultColorTokens
        /\ ~Has(profile, "typography") =>
              synthOut[1].tokens.typography = DefaultTypographyTokens
        /\ (~Has(profile, "brandName") \/ profile.brandName = "") =>
              synthOut[1].tokens.metadata.brandName = "Marca sin nombre"

\* The names of the variables the baseline gives rise to.
BaselineVariableNames ==
    UNION { {"color-" \o ramp \o "-" \o k : k \in DOMAIN DefaultColorTokens[ramp]} :
              ramp \in {"primary", "secondary", "accent", "neutral"} }
    \cup {"color-" \o k : k \in DOMAIN DefaultColorTokens.feedback}
    \cup {"font-family-" \o k : k \in DOMAIN DefaultTypographyTokens.families}
    \cup {"font-weight-" \o k : k \in DOMAIN DefaultTypographyTokens.weights}
    \cup {"font-size-" \o k : k \in DOMAIN DefaultTypographyTokens.sizes}
    \cup {"line-height-" \o k : k \in DOMAIN DefaultTypographyTokens.lineHeights}
    \cup {"spacing-" \o k : k \in DOMAIN DefaultSpacingTokens}

StartsWith(line, prefix) ==
    Len(line) >= Len(prefix) /\ SubSeq(line, 1, Len(prefix)) = prefix

\* C7: the synthesized token set has every ramp and scale key of the baseline,
\* and its css rendering has one declaration for each of them.
C7_BaselineKeysKept ==
    /\ SynthesisReturned =>
          LET t == synthOut[1].tokens IN
          /\ \A g \in DOMAIN DefaultColorTokens :
                /\ g \in DOMAIN t.colors
                /\ DOMAIN DefaultColorTokens[g] \subseteq DOMAIN t.colors[g]
          /\ \A g \in DOMAIN DefaultTypographyTokens :
                /\ g \in DOMAIN t.typography
                /\ DOMAIN DefaultTypographyTokens[g] \subseteq DOMAIN t.typography[g]
          /\ DOMAIN DefaultSpacingTokens \subseteq DOMAIN t.spacing
    /\ (rendered # <<>> /\ rendered[1].format = "css") =>
          LET ls == rendered[1].text.lines IN
          \A name \in BaselineVariableNames :
              Cardinality({i \in 1..Len(ls) : StartsWith(ls[i], "  --" \o name \o ": ")}) = 1

\* A profile with zero signals was synthesized and rendered as css.
C7_Witness ==
    /\ Has(profile, "colors") /\ profile.colors = <<>>
    /\ Has(profile, "typography") /\ profile.typography = <<>>
    /\ rendered # <<>>
    /\ rendered[1].format = "css"
    /\ \E i \in 1..Len(rendered[1].text.lines) :
          rendered[1].text.lines[i] = "  --color-primary-500: #0066c5;"

-----------------------------------------------------------------------------
(* SpecRuns: successive calls of generateDesignTokens in one process.       *)

MaxRuns == 3

RunProfiles ==
    { [colors |-> <<>>, typography |-> <<>>, logos |-> <<>>],
      [colors |-> << [name |-> "Color 1", hex |-> "#ff0000", category |-> "primary"],
                     [name |-> "Color 2", hex |-> "#00ff00", category |-> "secondary"] >>,
       typography |-> << [family |-> "Roboto", category |-> "heading"] >>,
       logos |-> <<>>, brandName |-> "Acme"],
      [colors |-> << [name |-> "Color 1", hex |-> "#123456", category |-> "accent"] >>,
       typography |-> << [family |-> "Oswald", category |-> "accent"] >>,
       logos |-> <<>>],
      [typography |-> <<>>, logos |-> <<>>],
      [colors |-> <<>>, brandName |-> "Acme"] }

InitRuns ==
    /\ runs = <<>>
    /\ heap = <<>>
    /\ clock = 0
    /\ profile = <<>> /\ synthOut = <<>> /\ rendered = <<>>
    /\ IdleExtractor /\ IdleHandlers /\ IdleServer

SynthesizeAgain ==
    /\ Len(runs) < MaxRuns
    /\ \E p \in RunProfiles :
          LET r == generateDesignTokens(p, heap, clock)
          IN  /\ runs' = Append(runs, [profile |-> p, outcome |-> Outcome(r)])
              /\ heap' = r.heap
    /\ clock' = clock + 1
    /\ UNCHANGED <<profile, synthOut, rendered, extractorVars, handlerVars, serverVars>>

NextRuns == SynthesizeAgain

SpecRuns == InitRuns /\ [][NextRuns]_vars

\* An outcome without the references of the returned object and without
\* metadata.createdAt.
IgnoringCreatedAt(o) ==
    IF o.threw THEN o
    ELSE [threw |-> FALSE,
          tokens |-> [o.tokens EXCEPT !.metadata =
                          [k \in DOMAIN o.tokens.metadata \ {"createdAt"} |->
                              o.tokens.metadata[k]]]]

\* C8: two runs of generateDesignTokens on the same profile, whatever other
\* synthesis calls come before or between them, yield token sets that are
\* identical in every field except metadata.createdAt.
C8_SynthesisDeterministic ==
    \A i, j \in 1..Len(runs) :
        runs[i].profile = runs[j].profile =>
            IgnoringCreatedAt(runs[i].outcome) = IgnoringCreatedAt(runs[j].outcome)

\* The zero-signal profile was synthesized before and after a profile that
\* overrides the primary stop, at different instants.
C8_Witness ==
    /\ Len(runs) = 3
    /\ runs[1].profile = runs[3].profile
    /\ Has(runs[1].profile, "colors")
    /\ runs[1].profile.colors = <<>>
    /\ Has(runs[2].profile, "colors")
    /\ FirstOfCategory(runs[2].profile.colors, "primary") # <<>>
    /\ ~runs[1].outcome.threw /\ ~runs[3].outcome.threw
    /\ runs[1].outcome.tokens.metadata.createdAt # runs[3].outcome.tokens.metadata.createdAt
    /\ runs[3].outcome.tokens.colors.primary["500"] = "#0066c5"

-----------------------------------------------------------------------------
(* SpecHandlers: invocations of the two handlers on one event loop. An       *)
(* extract_pdf_branding invocation runs to "await pdfParse", and its         *)
(* continuation runs later; whatever runs between the two runs whole.        *)

MaxInvocations == 2

PdfRequests ==
    { [name |-> PdfToolName, arguments |-> [pdfPath |-> path]] :
          path \in {"/brand.pdf", "/guide.pdf", "/corrupt.pdf", "/missing.pdf"} }
    \cup
    { [name |-> PdfToolName,
       arguments |-> [pdfPath |-> "/brand.pdf",
                      extractOptions |-> [extractColors |-> FALSE]]],
      [name |-> PdfToolName,
       arguments |-> [pdfPath |-> "/guide.pdf",
                      extractOptions |-> [extractTypography |-> FALSE,
                                          extractLogos |-> FALSE,
                                          extractColors |-> TRUE]]],
      [name |-> PdfToolName, arguments |-> [extractOptions |-> [extractLogos |-> FALSE]]],
      [name |-> PdfToolName] }

TokenRequests ==
    { [name |-> TokenToolName, arguments |-> [brandingData |-> p]] : p \in RunProfiles }
    \cup
    { [name |-> TokenToolName,
       arguments |-> [brandingData |-> [colors |-> <<>>, typography |-> <<>>, logos |-> <<>>],
                      format |-> f]] : f \in {"scss"} }
    \cup
    { [name |-> TokenToolName,
       arguments |-> [brandingData |-> [typography |-> <<>>, logos |-> <<>>],
                      figmaData |-> [colors |-> << [name |-> "Brand",
                                                    hex |-> "#abcdef",
                                                    category |-> "primary"] >>],
                      format |-> "css"]],
      [name |-> TokenToolName, arguments |-> [format |-> "scss"]],
      [name |-> TokenToolName] }

\* A request that names a tool of another handler.
ForeignRequests ==
    { [name |-> "install_shopify_theme"] }

InitHandlers ==
    /\ inflight = <<>>
    /\ responses = <<>>
    /\ log = <<>>
    /\ heap = <<>>
    /\ clock = 0
    /\ profile = <<>> /\ synthOut = <<>> /\ rendered = <<>> /\ runs = <<>>
    /\ IdleExtractor /\ IdleServer

\* The lines an invocation logged, marked with the invocation.
LoggedBy(id, entries) == [k \in 1..Len(entries) |-> [id |-> id, entry |-> entries[k]]]

\* The locals of a suspended invocation as if they were module-level
\* variables: the invocation that started last has overwritten them.
FrameOfLatest(fl, id) ==
    fl[CHOOSE k \in 1..Len(fl) :
           /\ fl[k].frame # <<>>
           /\ \A j \in (k + 1)..Len(fl) : fl[j].frame = <<>>].frame[1]

\* The locals (pdfPath, options, dataBuffer) the continuation of invocation id
\* reads: those of its own call of extractBrandingFromPDF.
FrameOf(fl, id) == fl[id].frame[1]

InvokePdfHandler ==
    /\ Len(inflight) < MaxInvocations
    /\ \E req \in PdfRequests \cup ForeignRequests :
          LET id == Len(inflight) + 1
              b == PdfHandlerBegin(req)
          IN  /\ log' = log \o LoggedBy(id, b.log)
              /\ IF b.suspended
                 THEN /\ inflight' = Append(inflight, [handler |-> "registerPdfExtractorTool",
                                                       req |-> req, frame |-> <<b.frame>>,
                                                       calls |-> b.calls])
                      /\ UNCHANGED responses
                 ELSE /\ inflight' = Append(inflight, [handler |-> "registerPdfExtractorTool",
                                                       req |-> req, frame |-> <<>>,
                                                       calls |-> b.calls])
                      /\ responses' = Append(responses, [id |-> id, resp |-> b.resp])
    /\ clock' = clock + 1
    /\ UNCHANGED <<heap, profile, synthOut, rendered, runs, extractorVars, serverVars>>

OptionFlags == {"extractColors", "extractTypography", "extractLogos"}

\* Every object that gives some of the flags a boolean value.
ExtractOptions == UNION {[flags -> BOOLEAN] : flags \in SUBSET OptionFlags}

OptionPaths == {"/brand.pdf", "/plain.pdf"}

OptionRequests ==
    { [name |-> PdfToolName, arguments |-> [pdfPath |-> path]] : path \in OptionPaths }
    \cup
    { [name |-> PdfToolName, arguments |-> [pdfPath |-> path, extractOptions |-> o]] :
          path \in OptionPaths, o \in ExtractOptions }

\* The continuation's outcome for every frame a request can suspend with.
ResumeOutcomes ==
    [frame \in {PdfHandlerBegin(req).frame :
                   req \in {q \in PdfRequests \cup OptionRequests :
                               PdfHandlerBegin(q).suspended}} |->
        PdfHandlerResume(frame)]

ResumePdfHandler ==
    /\ \E id \in 1..Len(inflight) :
          /\ inflight[id].frame # <<>>
          /\ LET r == ResumeOutcomes[FrameOf(inflight, id)]
             IN  /\ log' = log \o LoggedBy(id, r.log)
                 /\ responses' = Append(responses, [id |-> id, resp |-> r.resp])
                 /\ inflight' = [inflight EXCEPT ![id].frame = <<>>,
                                                  ![id].calls = @ \o r.calls]
    /\ clock' = clock + 1
    /\ UNCHANGED <<heap, profile, synthOut, rendered, runs, extractorVars, serverVars>>

InvokeTokenHandler ==
    /\ Len(inflight) < MaxInvocations
    /\ \E req \in TokenRequests \cup ForeignRequests :
          LET id == Len(inflight) + 1
              r == TokenHandler(req, heap, clock)
          IN  /\ log' = log \o LoggedBy(id, r.log)
              /\ inflight' = Append(inflight, [handler |-> "registerDesignTokenTool",
                                               req |-> req, frame |-> <<>>,
                                               calls |-> r.calls])
              /\ responses' = Append(responses, [id |-> id, resp |-> r.resp])
              /\ heap' = r.heap
    /\ clock' = clock + 1
    /\ UNCHANGED <<profile, synthOut, rendered, runs, extractorVars, serverVars>>

NextHandlers == InvokePdfHandler \/ ResumePdfHandler \/ InvokeTokenHandler

SpecHandlers == InitHandlers /\ [][NextHandlers]_vars

\* What the handler returns for the request when no other invocation exists:
\* run from the state after construction, its continuation run next.
AloneResponses ==
    [handler \in {"registerPdfExtractorTool", "registerDesignTokenTool"},
     req \in PdfRequests \cup TokenRequests \cup ForeignRequests |->
        CHOOSE resp \in {o.resp : o \in HandlerOutcomes(handler, req, <<>>, 0)} : TRUE]

AloneResponse(handler, req) == AloneResponses[handler, req]

\* A response without metadata.createdAt in its JSON text.
WithoutCreatedAt(resp) ==
    IF /\ Has(resp, "content")
       /\ resp.content[1].text.kind = "json"
       /\ Has(resp.content[1].text.tree, "metadata")
    THEN [resp EXCEPT !.content[1].text.tree.metadata =
              [k \in DOMAIN @ \ {"createdAt"} |-> @[k]]]
    ELSE resp

ResponsesAsWhenAlone ==
    \A k \in 1..Len(responses) :
        LET call == inflight[responses[k].id]
        IN  WithoutCreatedAt(responses[k].resp)
                = WithoutCreatedAt(AloneResponse(call.handler, call.req))

\* No step writes to an object that an earlier invocation created.
CreatedObjectsKept ==
    /\ Len(heap') >= Len(heap)
    /\ \A a \in 1..Len(heap) : heap'[a] = heap[a]

\* C9: in every interleaving of invocations of the two handlers (an extraction
\* suspends once, at the await of pdfParse), each invocation's response equals,
\* createdAt aside, the response the same request gets when it runs alone, and
\* no invocation overwrites an object another invocation created.
C9_InvocationsIndependent ==
    []ResponsesAsWhenAlone /\ [][CreatedObjectsKept]_vars

\* Two extractions overlapped: the second started while the first was
\* suspended and returned before it, both with a success payload, on different
\* documents.
C9_Witness ==
    /\ Len(responses) = 2
    /\ responses[1].id = 2 /\ responses[2].id = 1
    /\ inflight[1].handler = "registerPdfExtractorTool"
    /\ inflight[2].handler = "registerPdfExtractorTool"
    /\ inflight[1].req = [name |-> PdfToolName, arguments |-> [pdfPath |-> "/brand.pdf"]]
    /\ inflight[2].req = [name |-> PdfToolName, arguments |-> [pdfPath |-> "/guide.pdf"]]
    /\ ~Has(responses[1].resp, "isError")
    /\ ~Has(responses[2].resp, "isError")
    /\ responses[1].resp # responses[2].resp

-----------------------------------------------------------------------------
(* Spec: the constructed server answering tools/call requests. The SDK       *)
(* hands a request to the one handler its table holds for the method and     *)
(* sends what that handler returns.                                          *)

MaxCalls == 2

CallRequests ==
    PdfRequests \cup TokenRequests
        \cup { [name |-> tool, arguments |-> [themePath |-> "/theme"]] : tool \in ShopifyTools }

Init ==
    /\ requestHandlers = ConstructedHandlers
    /\ served = <<>>
    /\ log = <<>>
    /\ heap = <<>>
    /\ clock = 0
    /\ inflight = <<>> /\ responses = <<>>
    /\ profile = <<>> /\ synthOut = <<>> /\ rendered = <<>> /\ runs = <<>>
    /\ IdleExtractor

CallTool ==
    /\ Len(served) < MaxCalls
    /\ CallToolMethod \in DOMAIN requestHandlers
    /\ \E req \in CallRequests :
          LET handler == requestHandlers[CallToolMethod]
          IN  \E o \in HandlerOutcomes(handler, req, heap, clock) :
                 /\ served' = Append(served, [req |-> req, reached |-> handler, resp |-> o.resp])
                 /\ log' = log \o LoggedBy(Len(served) + 1, o.log)
                 /\ heap' = o.heap
    /\ clock' = clock + 1
    /\ UNCHANGED <<requestHandlers, inflight, responses,
                   profile, synthOut, rendered, runs, extractorVars>>

Next == CallTool

Spec == Init /\ [][Next]_vars

\* A success payload with exactly one text block, or an error payload with a
\* text block and isError set.
IsStructuredResponse(resp) ==
    /\ Has(resp, "content")
    /\ IF Has(resp, "isError")
       THEN /\ resp.isError = TRUE
            /\ \E k \in 1..Len(resp.content) : resp.content[k].type = "text"
       ELSE /\ Len(resp.content) = 1
            /\ resp.content[1].type = "text"

\* C10: every served call that names extract_pdf_branding or
\* generate_design_tokens was answered by the handler of that tool with a
\* structured success or error payload, never with undefined.
C10_NamedToolAnswered ==
    \A k \in 1..Len(served) :
        served[k].req.name \in {PdfToolName, TokenToolName} =>
            /\ served[k].resp # ReturnedUndefined
            /\ IsStructuredResponse(served[k].resp)
            /\ served[k].req.name \in ToolsOf(served[k].reached)

-----------------------------------------------------------------------------
(* Properties of single invocations, checked under SpecHandlers.            *)

\* The invocation (its handler, request and collaborator calls) that the
\* k-th response answers.
CallOf(k) == inflight[responses[k].id]

FromPdfHandler(k) ==
    /\ CallOf(k).handler = "registerPdfExtractorTool"
    /\ CallOf(k).req.name = PdfToolName

FromTokenHandler(k) ==
    /\ CallOf(k).handler = "registerDesignTokenTool"
    /\ CallOf(k).req.name = TokenToolName

\* The request carries no value for the argument.
LacksArgument(req, key) ==
    \/ ~Has(req, "arguments")
    \/ ~Has(req.arguments, key)

\* An error-flagged response whose one text block carries the message.
IsErrorResponseWith(resp, message) ==
    /\ Has(resp, "isError") /\ resp.isError = TRUE
    /\ Len(resp.content) = 1
    /\ resp.content[1].type = "text"
    /\ resp.content[1].text = [kind |-> "plain", value |-> "Error: " \o message]

\* C11: a call of extract_pdf_branding without pdfPath and a call of
\* generate_design_tokens without brandingData are answered with an
\* error-flagged response that carries the invalid-parameters message, and
\* the invocation has called no collaborator (no existence check, read or
\* decode; no synthesis or rendering).
C11_InvalidParamsNoWork ==
    \A k \in 1..Len(responses) :
        /\ (FromPdfHandler(k) /\ LacksArgument(CallOf(k).req, "pdfPath")) =>
              /\ IsErrorResponseWith(responses[k].resp,
                     "MCP error -32602: Se requiere la ruta al archivo PDF (pdfPath)")
              /\ CallOf(k).calls = <<>>
        /\ (FromTokenHandler(k) /\ LacksArgument(CallOf(k).req, "brandingData")) =>
              /\ IsErrorResponseWith(responses[k].resp,
                     "MCP error -32602: Se requieren los datos de branding (brandingData)")
              /\ CallOf(k).calls = <<>>

\* The invocation meets a failure: a required argument is missing, the file
\* does not exist, the document cannot be decoded, or synthesis throws on a
\* profile without a colors or a typography list.
Fails(call) ==
    IF call.handler = "registerPdfExtractorTool"
    THEN \/ LacksArgument(call.req, "pdfPath")
         \/ call.req.arguments.pdfPath \notin DOMAIN FileSystem
         \/ ~FileSystem[call.req.arguments.pdfPath].valid
    ELSE \/ LacksArgument(call.req, "brandingData")
         \/ LET a == call.req.arguments
                data == IF Has(a, "figmaData") THEN Spread(a.brandingData, a.figmaData)
                        ELSE a.brandingData
            IN  ~Has(data, "colors") \/ ~Has(data, "typography")

\* An error-flagged response with one text block "Error: ...".
IsErrorTextResponse(resp) ==
    /\ Has(resp, "content") /\ Has(resp, "isError")
    /\ resp.isError = TRUE
    /\ Len(resp.content) = 1
    /\ resp.content[1].type = "text"
    /\ resp.content[1].text.kind = "plain"
    /\ Len(resp.content[1].text.value) > Len("Error: ")
    /\ SubSeq(resp.content[1].text.value, 1, Len("Error: ")) = "Error: "

\* C12: every invocation of the two handlers returns a structured response
\* (the handler never rejects); the response is an error-flagged text
\* response exactly when the invocation met a failure; and a response that
\* comes after a failed invocation is the one the request gets when it is the
\* only request ever made (createdAt aside).
C12_FailuresCaught ==
    \A k \in 1..Len(responses) :
        (FromPdfHandler(k) \/ FromTokenHandler(k)) =>
            /\ IsStructuredResponse(responses[k].resp)
            /\ Fails(CallOf(k)) <=> IsErrorTextResponse(responses[k].resp)
            /\ (\E j \in 1..(k - 1) : Fails(CallOf(j))) =>
                  WithoutCreatedAt(responses[k].resp)
                      = WithoutCreatedAt(AloneResponse(CallOf(k).handler, CallOf(k).req))

\* A decode failure was answered with an error response, and the synthesis
\* request made after it succeeded.
C12_Witness ==
    /\ Len(responses) = 2
    /\ responses[1].id = 1 /\ responses[2].id = 2
    /\ CallOf(1).req = [name |-> PdfToolName, arguments |-> [pdfPath |-> "/corrupt.pdf"]]
    /\ IsErrorResponseWith(responses[1].resp, "Invalid PDF structure")
    /\ FromTokenHandler(2)
    /\ ~Fails(CallOf(2))
    /\ ~Has(responses[2].resp, "isError")

\* The number of lines of the level that the invocation has logged.
LinesLogged(id, level) ==
    Cardinality({i \in 1..Len(log) : log[i].id = id /\ log[i].entry.level = level})

\* C13: every invocation of extract_pdf_branding or generate_design_tokens
\* that has returned logged exactly one info line; it logged exactly one
\* error line when it failed and no error line when it succeeded.
C13_OneInfoOneError ==
    \A k \in 1..Len(responses) :
        (FromPdfHandler(k) \/ FromTokenHandler(k)) =>
            /\ LinesLogged(responses[k].id, "info") = 1
            /\ LinesLogged(responses[k].id, "error")
                   = IF Has(responses[k].resp, "isError") THEN 1 ELSE 0

-----------------------------------------------------------------------------
(* SpecOptions: extract_pdf_branding invoked with every combination of the  *)
(* three extractOptions flags (each absent, true or false) and without      *)
(* extractOptions.                                                          *)

MaxOptionCalls == 1

InvokeWithOptions ==
    /\ Len(inflight) < MaxOptionCalls
    /\ \E req \in OptionRequests :
          LET id == Len(inflight) + 1
              b == PdfHandlerBegin(req)
          IN  /\ log' = log \o LoggedBy(id, b.log)
              /\ inflight' = Append(inflight,
                                    [handler |-> "registerPdfExtractorTool", req |-> req,
                                     frame |-> IF b.suspended THEN <<b.frame>> ELSE <<>>,
                                     calls |-> b.calls])
              /\ responses' = IF b.suspended THEN responses
                              ELSE Append(responses, [id |-> id, resp |-> b.resp])
    /\ clock' = clock + 1
    /\ UNCHANGED <<heap, profile, synthOut, rendered, runs, extractorVars, serverVars>>

NextOptions == InvokeWithOptions \/ ResumePdfHandler

SpecOptions == InitHandlers /\ [][NextOptions]_vars

\* What the extractors find in each document, whatever the flags say.
Found ==
    [path \in OptionPaths |->
        LET t == FileSystem[path].text
        IN  [colors |-> extractColors(t),
             typography |-> extractTypography(t),
             logos |-> extractLogos(t),
             brandName |-> extractBrandName(t)]]

\* The request gives the flag the value false.
ExplicitlyFalse(req, flag) ==
    /\ Has(req.arguments, "extractOptions")
    /\ Has(req.arguments.extractOptions, flag)
    /\ req.arguments.extractOptions[flag] = FALSE

\* C14: in the profile extract_pdf_branding returns, the list of a category
\* is empty exactly when the flag of that category is explicitly false (for
\* typography: empty, not the defaults) and is what the extractor of the
\* category finds in the text for every other value of the flag, whatever the
\* other two flags are; the brand name does not depend on the flags.
C14_FlagsSuppressOwnCategory ==
    \A k \in 1..Len(responses) :
        LET req == CallOf(k).req
            tree == responses[k].resp.content[1].text.tree
            found == Found[req.arguments.pdfPath]
        IN  /\ ~Has(responses[k].resp, "isError")
            /\ tree.colors = IF ExplicitlyFalse(req, "extractColors")
                             THEN <<>> ELSE found.colors
            /\ tree.typography = IF ExplicitlyFalse(req, "extractTypography")
                                 THEN <<>> ELSE found.typography
            /\ tree.logos = IF ExplicitlyFalse(req, "extractLogos")
                            THEN <<>> ELSE found.logos
            /\ Has(tree, "brandName") <=> found.brandName # <<>>
            /\ Has(tree, "brandName") => tree.brandName = found.brandName[1]

\* A text without a known font was extracted with extractTypography false and
\* extractColors true: no typography (not the two defaults), the colors and
\* logos as found, and the brand name.
C14_Witness ==
    /\ Len(responses) = 1
    /\ CallOf(1).req = [name |-> PdfToolName,
                        arguments |-> [pdfPath |-> "/plain.pdf",
                                       extractOptions |-> [extractTypography |-> FALSE,
                                                           extractColors |-> TRUE]]]
    /\ Found["/plain.pdf"].typography = DefaultTypography
    /\ responses[1].resp.content[1].text.tree.typography = <<>>
    /\ Len(responses[1].resp.content[1].text.tree.colors) = 2
    /\ Len(responses[1].resp.content[1].text.tree.logos) = 0
    /\ responses[1].resp.content[1].text.tree.brandName = "Orion"

-----------------------------------------------------------------------------
(* SpecRender: token sets, with and without the optional accent family and  *)
(* spacing block, rendered in the formats of convertTokensToFormat.         *)

MaxRenders == 2

\* The baseline token set, as a reader sees it.
BaselineTokens ==
    [colors |-> DefaultColorTokens,
     typography |-> DefaultTypographyTokens,
     spacing |-> DefaultSpacingTokens,
     metadata |-> [brandName |-> "Acme", version |-> "1.0.0", createdAt |-> 0]]

WithoutKey(obj, key) == [k \in DOMAIN obj \ {key} |-> obj[k]]

\* Token sets: the primary stop overridden or not; the accent family absent
\* (as in the baseline), empty or set; the spacing block present or absent.
TokenSets ==
    { LET c == [BaselineTokens EXCEPT !.colors.primary["500"] = stop]
          a == CASE accent = "absent" -> c
                 [] accent = "empty" ->
                        [c EXCEPT !.typography.families = ("accent" :> "") @@ @]
                 [] accent = "set" ->
                        [c EXCEPT !.typography.families =
                                      ("accent" :> "Oswald, sans-serif") @@ @]
      IN  IF spacing THEN a ELSE WithoutKey(a, "spacing") :
        stop \in {"#0066c5", "#ff0000"},
        accent \in {"absent", "empty", "set"},
        spacing \in BOOLEAN }

InitRender ==
    /\ synthOut \in { <<[threw |-> FALSE, tokens |-> t]>> : t \in TokenSets }
    /\ rendered = <<>>
    /\ profile = <<>> /\ heap = <<>> /\ clock = 0 /\ runs = <<>>
    /\ IdleExtractor /\ IdleHandlers /\ IdleServer

RenderFormat ==
    /\ Len(rendered) < MaxRenders
    /\ \E format \in Formats :
          rendered' = Append(rendered,
                             [format |-> format,
                              text |-> FormatSwitch(synthOut[1].tokens, format)])
    /\ UNCHANGED <<profile, synthOut, heap, clock, runs,
                   extractorVars, handlerVars, serverVars>>

NextRender == RenderFormat

SpecRender == InitRender /\ [][NextRender]_vars

\* The declarations of a rendering, in order, without what opens them: every
\* line that starts with `open`, as "name: value;".
Declarations(lines, open) ==
    LET decls == SelectSeq(lines, LAMBDA l : StartsWith(l, open))
    IN  [i \in 1..Len(decls) |-> SubSeq(decls[i], Len(open) + 1, Len(decls[i]))]

\* The number of leaves of the token set that the renderings enumerate.
LeafCount(t) ==
    LET Size(obj) == Cardinality(DOMAIN obj)
        families == t.typography.families
    IN  Size(t.colors.primary) + Size(t.colors.secondary) + Size(t.colors.accent)
        + Size(t.colors.neutral) + Size(t.colors.feedback)
        + 2 + (IF Has(families, "accent") /\ families.accent # "" THEN 1 ELSE 0)
        + Size(t.typography.weights) + Size(t.typography.sizes)
        + Size(t.typography.lineHeights)
        + (IF Has(t, "spacing") THEN Size(t.spacing) ELSE 0)

\* C15: the scss rendering of a token set declares the same names with the
\* same values in the same order as its css rendering ('$name: value;' lines
\* against '  --name: value;' lines inside ':root { }'), one declaration per
\* leaf; neither declares font-family-accent when the accent family is absent
\* or any spacing variable when the spacing block is absent.
C15_ScssSameLeavesAsCss ==
    \A i, j \in 1..Len(rendered) :
        (rendered[i].format = "css" /\ rendered[j].format = "scss") =>
            LET t == synthOut[1].tokens
                css == rendered[i].text
                scss == rendered[j].text
            IN  /\ css.kind = "lines" /\ scss.kind = "lines"
                /\ Head(css.lines) = ":root {"
                /\ css.lines[Len(css.lines)] = "}"
                /\ Declarations(scss.lines, "$") = Declarations(css.lines, "  --")
                /\ Len(Declarations(css.lines, "  --")) = LeafCount(t)
                /\ Len(css.lines) = LeafCount(t) + 2
                /\ \A d \in 1..Len(Declarations(scss.lines, "$")) :
                      LET decl == Declarations(scss.lines, "$")[d]
                      IN  /\ StartsWith(decl, "font-family-accent:") =>
                                Has(t.typography.families, "accent")
                          /\ StartsWith(decl, "font-family-") =>
                                \E slot \in DOMAIN t.typography.families :
                                    decl = "font-family-" \o slot \o ": "
                                               \o t.typography.families[slot] \o ";"
                          /\ StartsWith(decl, "spacing-") => Has(t, "spacing")

\* A token set without the accent family and without spacing was rendered as
\* css and as scss.
C15_Witness ==
    /\ Len(rendered) = 2
    /\ rendered[1].format = "css" /\ rendered[2].format = "scss"
    /\ ~Has(synthOut[1].tokens, "spacing")
    /\ ~Has(synthOut[1].tokens.typography.families, "accent")
    /\ synthOut[1].tokens.colors.primary["500"] = "#ff0000"
    /\ Len(Declarations(rendered[2].text.lines, "$")) = LeafCount(synthOut[1].tokens)
    /\ \E d \in 1..Len(rendered[2].text.lines) :
          rendered[2].text.lines[d] = "$color-primary-500: #ff0000;"

-----------------------------------------------------------------------------
(* SpecBrand: extractBrandName on texts around the three lead-in phrases.   *)

MaxBrandFrags == 3

\* Pieces of document text around brand-name phrases; texts are
\* concatenations.
BrandFragments ==
    { "marca", " registrada", " ", ": ", "Acme 9", "Brand Name", "brand  name",
      "Logotipo de", "zeta", "\n", "'" }

InitBrand ==
    /\ text \in Concats(BrandFragments, MaxBrandFrags)
    /\ colorsOut = <<>>
    /\ typographyOut = <<>>
    /\ brandNameOut = <<>>
    /\ IdleSynthesizer /\ IdleHandlers /\ IdleServer

RunExtractBrandName ==
    /\ brandNameOut = <<>>
    /\ brandNameOut' = <<extractBrandName(text)>>
    /\ UNCHANGED <<text, colorsOut, typographyOut, synthVars, handlerVars, serverVars>>

NextBrand == RunExtractBrandName

SpecBrand == InitBrand /\ [][NextBrand]_vars

\* The patterns, in their order, that match somewhere in the text.
MatchingPatterns(s) == {k \in 1..3 : BrandPatternMatch(s, k) # <<>>}

\* C16: extractBrandName returns undefined when none of the three patterns
\* matches; otherwise it returns the trimmed first group of the first pattern,
\* in their order, that matches, and the name it returns is not empty and
\* begins with an uppercase letter A-Z.
C16_BrandNameCapitalized ==
    brandNameOut # <<>> =>
        LET returned == brandNameOut[1]
            matching == MatchingPatterns(text)
        IN  /\ returned = <<>> <=> matching = {}
            /\ returned # <<>> =>
                  LET first == CHOOSE k \in matching : \A j \in matching : k <= j
                  IN  /\ returned[1] = trim(BrandPatternMatch(text, first)[1])
                      /\ returned[1] # ""
                      /\ Ch(returned[1], 1) \in UpperSet

-----------------------------------------------------------------------------
(* SpecCompose: the colors extracted from a text handed to the synthesizer. *)

MaxComposeFrags == 3

\* Pieces of document text with hex literals and RGB expressions; texts are
\* concatenations.
ComposeFragments ==
    { "#111111 ", "#0066C5 #abc ", "#dd0000 #00ee00 #0000ff #777 ",
      "rgb(1,2,3) ", "RGB(17, 17, 17) ", "#12345 " }

InitCompose ==
    /\ text \in Concats(ComposeFragments, MaxComposeFrags)
    /\ colorsOut = <<>>
    /\ typographyOut = <<>>
    /\ brandNameOut = <<>>
    /\ IdleSynthesizer /\ IdleHandlers /\ IdleServer

\* generateDesignTokens on the profile that holds the extracted colors.
SynthesizeExtracted ==
    /\ colorsOut # <<>>
    /\ synthOut = <<>>
    /\ LET extracted == [colors |-> colorsOut[1], typography |-> <<>>, logos |-> <<>>]
           r == generateDesignTokens(extracted, heap, clock)
       IN  /\ profile' = extracted
           /\ synthOut' = <<Outcome(r)>>
           /\ heap' = r.heap
    /\ clock' = clock + 1
    /\ UNCHANGED <<rendered, runs, extractorVars, handlerVars, serverVars>>

NextCompose == RunExtractColors \/ SynthesizeExtracted

SpecCompose == InitCompose /\ [][NextCompose]_vars

\* The n-th hex literal of the text, or the baseline stop of the ramp when
\* the text has fewer.
HexLiteralOr(s, n, ramp) ==
    IF Len(hexMatches(s)) >= n THEN hexMatches(s)[n] ELSE DefaultColorTokens[ramp]["500"]

\* The profile without the signals that have no category.
WithoutUncategorized(p) ==
    [p EXCEPT !.colors = SelectSeq(@, LAMBDA c : Has(c, "category"))]

\* C17: the token set synthesized from extractColors(text) is the baseline
\* with primary, secondary and accent stop 500 set to the 1st, 2nd and 3rd hex
\* literal of the text (each left at the baseline when the text has fewer);
\* RGB expressions and further hex literals change nothing, and the token set
\* equals the one synthesized from the profile without uncategorized signals.
C17_StopsFromFirstThreeHexLiterals ==
    synthOut # <<>> =>
        /\ ~synthOut[1].threw
        /\ synthOut[1].tokens.colors =
               [DefaultColorTokens EXCEPT
                    !.primary["500"] = HexLiteralOr(text, 1, "primary"),
                    !.secondary["500"] = HexLiteralOr(text, 2, "secondary"),
                    !.accent["500"] = HexLiteralOr(text, 3, "accent")]
        /\ synthOut[1].tokens.typography = DefaultTypographyTokens
        /\ synthOut[1].tokens.spacing = DefaultSpacingTokens
        /\ IgnoringCreatedAt(synthOut[1])
               = IgnoringCreatedAt(Outcome(generateDesignTokens(
                                               WithoutUncategorized(profile), <<>>, 0)))

\* A text with four hex literals and an RGB expression was extracted (five
\* signals, the last without a category) and synthesized.
C17_Witness ==
    /\ text = "#dd0000 #00ee00 #0000ff #777 rgb(1,2,3) "
    /\ synthOut # <<>>
    /\ Len(profile.colors) = 5
    /\ ~Has(profile.colors[5], "category")
    /\ Len(WithoutUncategorized(profile).colors) = 4
    /\ synthOut[1].tokens.colors.primary["500"] = "#dd0000"
    /\ synthOut[1].tokens.colors.secondary["500"] = "#00ee00"
    /\ synthOut[1].tokens.colors.accent["500"] = "#0000ff"

=============================================================================
